---------------------------- MODULE Spec2Model ----------------------------
(***************************************************************************)
(* LedgePro cashbook (src/App.tsx): the three collections of the App       *)
(* component, their localStorage copies, the selection context, the        *)
(* add / delete / export / import / wipe handlers and the balance          *)
(* computations of the render.                                             *)
(*                                                                         *)
(* Conventions.                                                            *)
(*  - A JavaScript value that the code expects to be an array is a record  *)
(*    [kind, items]: kind = "array" carries the elements, any other kind   *)
(*    ("string", "number", "object": truthy; "null": falsy) carries none.  *)
(*  - Identifiers are strings in the code.  generateId() draws a random    *)
(*    UUID; it is modelled as the next value of a counter, so that a       *)
(*    generated identifier never repeats.  Identifiers < 0 occur only in   *)
(*    hand-written backup files.  Null (0) is the null selection.          *)
(*  - A text typed into an <input type="number"> is a sequence of          *)
(*    characters, empty or a valid decimal integer (the browser delivers   *)
(*    "" for anything that is not a number).  Amounts are integers, which  *)
(*    JavaScript numbers represent exactly.                                *)
(*  - A date is a day number; NoDate (0) is the empty string a cleared     *)
(*    <input type="date"> delivers, whose getTime() is NaN.                *)
(*  - The free-text fields no handler reads (address, phone, gst,          *)
(*    financialYear, description) are left out of the entities.            *)
(*  - React batches the state updates of one handler into one render; the  *)
(*    render and the persistence effect that follows it are part of the    *)
(*    handler's action.                                                    *)
(***************************************************************************)
EXTENDS Integers, Sequences, FiniteSets, TLC

VARIABLES
    companies,          \* useState<Company[]>        App.tsx:143
    customers,          \* useState<Customer[]>       App.tsx:144
    transactions,       \* useState<Transaction[]>    App.tsx:145
    selectedCompanyId,  \* App.tsx:148
    selectedCustomerId, \* App.tsx:149
    localStorage,       \* the browser's key -> text store
    mounted,            \* FALSE once a render has thrown (React unmounts the tree)
    nextId,             \* the identifiers generateId() has handed out so far
    last                \* the handler that ran last, its inputs and what it
                        \* reported (for an export: the file it downloaded)

vars == <<companies, customers, transactions, selectedCompanyId,
          selectedCustomerId, localStorage, mounted, nextId, last>>

colls == <<companies, customers, transactions>>

----------------------------------------------------------------------------
(* Bounds of the model *)

MaxId == 2          \* identifiers generateId() may hand out in one run
MaxTx == 3          \* handleAddTransaction is not taken beyond this length
MaxCustomers == 1   \* handleAddCustomer is not taken beyond this length
MaxCompanies == 2   \* handleAddCompany is not taken beyond this length

Null == 0
NoDate == 0
Names == {"", "A"}
\* What the transaction form may hold when "Confirm Entry" is clicked: a
\* date (or none), a type and an amount text (empty, zero or positive).
TxForms ==
    { [date |-> 1, type |-> "CREDIT", amount |-> <<"5">>],
      [date |-> 1, type |-> "DEBIT", amount |-> <<"5">>],
      [date |-> NoDate, type |-> "DEBIT", amount |-> <<"5">>],
      [date |-> 1, type |-> "DEBIT", amount |-> <<"0">>],
      [date |-> 1, type |-> "CREDIT", amount |-> <<>>] }
BalanceTexts == {<<>>, <<"-", "5">>}

----------------------------------------------------------------------------
(* JavaScript values *)

Arr(s) == [kind |-> "array", items |-> s]
NonArr(k) == [kind |-> k, items |-> <<>>]
IsArray(v) == v.kind = "array"
\* ToBoolean: null (and a missing property) is falsy, every other kind
\* modelled here is truthy -- an empty array included.
Truthy(v) == v.kind # "null"

Digits == <<"0", "1", "2", "3", "4", "5", "6", "7", "8", "9">>
DigitVal(ch) ==
    CASE ch = "0" -> 0 [] ch = "1" -> 1 [] ch = "2" -> 2 [] ch = "3" -> 3
      [] ch = "4" -> 4 [] ch = "5" -> 5 [] ch = "6" -> 6 [] ch = "7" -> 7
      [] ch = "8" -> 8 [] ch = "9" -> 9

RECURSIVE DigitsToNat(_)
DigitsToNat(s) ==
    IF s = <<>> THEN 0
    ELSE 10 * DigitsToNat(SubSeq(s, 1, Len(s) - 1)) + DigitVal(s[Len(s)])

\* Number(text) of a numeric text; Number("") is 0.
Number(text) ==
    IF text = <<>> THEN 0
    ELSE IF Head(text) = "-" THEN 0 - DigitsToNat(Tail(text))
    ELSE DigitsToNat(text)

RECURSIVE NatToDigits(_)
NatToDigits(n) ==
    IF n < 10 THEN <<Digits[n + 1]>>
    ELSE Append(NatToDigits(n \div 10), Digits[(n % 10) + 1])

\* Number::toString of an integer, as JSON.stringify writes it.
NumberToString(n) ==
    IF n < 0 THEN <<"-">> \o NatToDigits(0 - n) ELSE NatToDigits(n)

\* JSON.stringify of one entity: its numbers (a customer's openingBalance,
\* a transaction's amount) become their decimal text, its strings are
\* carried as they are.
StringifyEntity(e) ==
    IF "amount" \in DOMAIN e THEN [e EXCEPT !.amount = NumberToString(@)]
    ELSE IF "openingBalance" \in DOMAIN e
         THEN [e EXCEPT !.openingBalance = NumberToString(@)]
         ELSE e

\* JSON.parse of one entity
ParseEntity(t) ==
    IF "amount" \in DOMAIN t THEN [t EXCEPT !.amount = Number(@)]
    ELSE IF "openingBalance" \in DOMAIN t
         THEN [t EXCEPT !.openingBalance = Number(@)]
         ELSE t

\* JSON.stringify(value) for a collection value: a well-formed text.
JSONstringify(v) ==
    [wellFormed |-> TRUE, kind |-> v.kind,
     items |-> [i \in 1..Len(v.items) |-> StringifyEntity(v.items[i])]]

\* JSON.parse(text) of a well-formed text (it throws on any other).
JSONparse(t) ==
    [kind |-> t.kind, items |-> [i \in 1..Len(t.items) |-> ParseEntity(t.items[i])]]


----------------------------------------------------------------------------
(* Entities (src/types.ts) *)

Company(id, name) == [id |-> id, name |-> name]
Customer(id, companyId, name, openingBalance) ==
    [id |-> id, companyId |-> companyId, name |-> name,
     openingBalance |-> openingBalance]
Transaction(id, customerId, date, type, amount) ==
    [id |-> id, customerId |-> customerId, date |-> date, type |-> type,
     amount |-> amount]

----------------------------------------------------------------------------
(* localStorage and loadData *)

Keys == {"companies", "customers", "transactions"}

\* localStorage.clear()
EmptyStorage == [k \in Keys |-> <<>>]

\* The three localStorage.setItem calls of the persistence effect.
Persist(c, u, t) ==
    [k \in Keys |->
        <<JSONstringify(CASE k = "companies" -> c
                          [] k = "customers" -> u
                          [] OTHER -> t)>>]

\* loadData(key, []): the stored text parsed, or the default when the key
\* is absent.
loadData(store, key) ==
    IF store[key] = <<>> THEN Arr(<<>>) ELSE JSONparse(store[key][1])

\* A stored text that is no JSON: JSON.parse(saved) throws a SyntaxError
\* out of loadData, which has no try/catch.
ParseThrows(store, key) == store[key] # <<>> /\ ~store[key][1].wellFormed
LoadThrows(store) == \E k \in Keys : ParseThrows(store, k)

----------------------------------------------------------------------------
(* Backup files *)

\* A backup that holds only the transactions of the selected customer
StringifyBackupSelected(c, u, t) ==
    [wellFormed |-> TRUE, kind |-> "object",
     fields |-> [k \in Keys \cup {"exportedAt", "version"} |->
        CASE k = "companies" -> [kind |-> c.kind, items |-> JSONstringify(c).items]
          [] k = "customers" -> [kind |-> u.kind, items |-> JSONstringify(u).items]
          [] k = "transactions" ->
                [kind |-> t.kind,
                 items |-> JSONstringify(
                     Arr(SelectSeq(t.items,
                                   LAMBDA x : x.customerId = selectedCustomerId))).items]
          [] OTHER -> NonArr("string")]]

\* The text handleExportBackup downloads: JSON.stringify of
\* {companies, customers, transactions, exportedAt, version}.
StringifyBackup(c, u, t) ==
    [wellFormed |-> TRUE, kind |-> "object",
     fields |-> [k \in Keys \cup {"exportedAt", "version"} |->
        CASE k = "companies" -> [kind |-> c.kind, items |-> JSONstringify(c).items]
          [] k = "customers" -> [kind |-> u.kind, items |-> JSONstringify(u).items]
          [] k = "transactions" -> [kind |-> t.kind, items |-> JSONstringify(t).items]
          [] OTHER -> NonArr("string")]]

\* data.<key> after JSON.parse of a file: the parsed property, or a falsy
\* value (undefined) when the document has no such property.
Field(file, key) ==
    IF file.kind = "object" /\ key \in DOMAIN file.fields
    THEN JSONparse(file.fields[key])
    ELSE NonArr("null")

\* A file that is no JSON text, and the documents null and 5.
NotJson == [wellFormed |-> FALSE, kind |-> "null", fields |-> <<>>]
Document(kind) == [wellFormed |-> TRUE, kind |-> kind, fields |-> <<>>]

\* A JSON object with the properties of `props` (a function from a subset
\* of Keys to collection values).
ObjectFile(props) ==
    [wellFormed |-> TRUE, kind |-> "object",
     fields |-> [k \in DOMAIN props |->
                    [kind |-> props[k].kind, items |-> JSONstringify(props[k]).items]]]

Snapshot(c, u, t) ==
    ObjectFile([k \in Keys |-> CASE k = "companies" -> c
                                 [] k = "customers" -> u
                                 [] OTHER -> t])

Without(file, key) ==
    [file EXCEPT !.fields = [k \in DOMAIN file.fields \ {key} |-> file.fields[k]]]
With(file, key, text) ==
    [file EXCEPT !.fields = [k \in DOMAIN file.fields |->
                                IF k = key THEN text ELSE file.fields[k]]]

CleanCompanies == Arr(<<Company(-1, "A")>>)
CleanCustomers == Arr(<<Customer(-1, -1, "A", -10)>>)
CleanTransactions == Arr(<<Transaction(-1, -1, 2, "CREDIT", 5)>>)
CleanFile == Snapshot(CleanCompanies, CleanCustomers, CleanTransactions)

\* The files a user may pick besides a backup just downloaded: well-formed
\* snapshots (empty; one company, customer and transaction; one whose
\* customer names no company; one with repeated identifiers and a
\* transaction of no customer), snapshots with one property missing, null
\* or not an array, and files that are no JSON object.
HandWrittenFiles ==
    { NotJson, Document("null"), Document("number"),
      Without(CleanFile, "transactions"),
      Snapshot(Arr(<<>>), Arr(<<>>), Arr(<<>>)),
      CleanFile,
      Snapshot(Arr(<<>>), CleanCustomers, Arr(<<>>)),
      Snapshot(CleanCompanies,
               Arr(<<Customer(-1, -1, "A", 0), Customer(-1, -1, "B", 10)>>),
               Arr(<<Transaction(-1, -1, 1, "CREDIT", 5),
                     Transaction(-1, -2, 1, "DEBIT", 3)>>)) }
    \cup { With(CleanFile, "customers", NonArr("null")),
           With(CleanFile, "companies", NonArr("string")),
           With(CleanFile, "customers", NonArr("number")),
           With(CleanFile, "transactions", NonArr("object")) }

----------------------------------------------------------------------------
(* Render and persistence *)

\* The render calls companies.find, customers.find and transactions.filter
\* (lines 172-176): a value that is no array has none of them, the call
\* throws and React unmounts the tree.
RenderThrows(c, u, t) == ~IsArray(c) \/ ~IsArray(u) \/ ~IsArray(t)

\* The state updates of one handler, the render they cause and the
\* persistence effect (lines 165-169) that runs after a render that
\* completed.
Commit(c, u, t) ==
    /\ companies' = c
    /\ customers' = u
    /\ transactions' = t
    /\ IF RenderThrows(c, u, t)
       THEN mounted' = FALSE /\ UNCHANGED localStorage
       ELSE mounted' = mounted /\ localStorage' = Persist(c, u, t)

\* const App = () => ...: the first render of a page load, from `store`.
\* When a useState initialiser throws, the component is never constructed:
\* there is no state (the three values are undefined) and nothing renders.
Mount(store) ==
    LET c == IF LoadThrows(store) THEN NonArr("null") ELSE loadData(store, "companies")
        u == IF LoadThrows(store) THEN NonArr("null") ELSE loadData(store, "customers")
        t == IF LoadThrows(store) THEN NonArr("null") ELSE loadData(store, "transactions")
    IN /\ companies' = c
       /\ customers' = u
       /\ transactions' = t
       /\ selectedCompanyId' = Null
       /\ selectedCustomerId' = Null
       /\ mounted' = ~RenderThrows(c, u, t)
       /\ localStorage' = IF RenderThrows(c, u, t) THEN store ELSE Persist(c, u, t)

generateId == nextId

Init ==
    /\ companies = loadData(EmptyStorage, "companies")
    /\ customers = loadData(EmptyStorage, "customers")
    /\ transactions = loadData(EmptyStorage, "transactions")
    /\ selectedCompanyId = Null
    /\ selectedCustomerId = Null
    /\ localStorage = Persist(Arr(<<>>), Arr(<<>>), Arr(<<>>))
    /\ mounted = TRUE
    /\ nextId = 1
    /\ last = [op |-> "load"]

----------------------------------------------------------------------------
(* Handlers *)

\* onClick of a company card (line 475)
SelectCompany ==
    /\ mounted
    /\ \E i \in 1..Len(companies.items) :
          selectedCompanyId' = companies.items[i].id
    /\ last' = [op |-> "selectCompany"]
    /\ UNCHANGED <<colls, selectedCustomerId, localStorage, mounted, nextId>>

\* onClick of a customer card of the selected company (lines 510-514)
SelectCustomer ==
    /\ mounted
    /\ selectedCompanyId # Null
    /\ \E i \in 1..Len(customers.items) :
          /\ customers.items[i].companyId = selectedCompanyId
          /\ selectedCustomerId' = customers.items[i].id
    /\ last' = [op |-> "selectCustomer"]
    /\ UNCHANGED <<colls, selectedCompanyId, localStorage, mounted, nextId>>

\* handleAddCompany without its test of the name
AddCompanyAcceptsAnyName(name) == TRUE

\* handleAddCompany that puts the new company first:
\* setCompanies([newCompany, ...companies])
handleAddCompanyPrepends(name) ==
    /\ mounted
    /\ Len(companies.items) < MaxCompanies
    /\ nextId <= MaxId
    /\ IF name # ""
       THEN /\ Commit(Arr(<<Company(generateId, name)>> \o companies.items),
                      customers, transactions)
            /\ nextId' = nextId + 1
       ELSE UNCHANGED <<colls, localStorage, mounted, nextId>>
    /\ last' = [op |-> "addCompany", name |-> name, done |-> name # ""]
    /\ UNCHANGED <<selectedCompanyId, selectedCustomerId>>

\* !companyForm.name
AddCompanyAccepts(name) == name # ""

handleAddCompany(name) ==
    /\ mounted
    /\ Len(companies.items) < MaxCompanies
    /\ nextId <= MaxId
    /\ IF AddCompanyAccepts(name)
       THEN /\ Commit(Arr(Append(companies.items, Company(generateId, name))),
                      customers, transactions)
            /\ nextId' = nextId + 1
       ELSE UNCHANGED <<colls, localStorage, mounted, nextId>>
    /\ last' = [op |-> "addCompany", name |-> name, done |-> AddCompanyAccepts(name)]
    /\ UNCHANGED <<selectedCompanyId, selectedCustomerId>>

AddCustomerAccepts(name) == selectedCompanyId # Null /\ name # ""

\* Number(customerForm.openingBalance) || 0
OpeningBalance(text) == IF Number(text) # 0 THEN Number(text) ELSE 0

handleAddCustomer(name, text) ==
    /\ mounted
    /\ Len(customers.items) < MaxCustomers
    /\ nextId <= MaxId
    /\ IF AddCustomerAccepts(name)
       THEN /\ Commit(companies,
                      Arr(Append(customers.items,
                                 Customer(generateId, selectedCompanyId, name,
                                          OpeningBalance(text)))),
                      transactions)
            /\ nextId' = nextId + 1
       ELSE UNCHANGED <<colls, localStorage, mounted, nextId>>
    /\ last' = IF AddCustomerAccepts(name)
               THEN [op |-> "addCustomer", name |-> name, done |-> TRUE,
                     text |-> text]
               ELSE [op |-> "addCustomer", name |-> name, done |-> FALSE]
    /\ UNCHANGED <<selectedCompanyId, selectedCustomerId>>

\* !selectedCustomerId || !txForm.amount: only the empty text is falsy
AddTransactionAccepts(text) == selectedCustomerId # Null /\ text # <<>>

handleAddTransaction(date, type, text) ==
    /\ mounted
    /\ Len(transactions.items) < MaxTx
    /\ nextId <= MaxId
    /\ IF AddTransactionAccepts(text)
       THEN /\ Commit(companies, customers,
                      Arr(Append(transactions.items,
                                 Transaction(generateId, selectedCustomerId, date,
                                             type, Number(text)))))
            /\ nextId' = nextId + 1
       ELSE UNCHANGED <<colls, localStorage, mounted, nextId>>
    /\ last' = [op |-> "addTransaction", text |-> text,
                done |-> AddTransactionAccepts(text)]
    /\ UNCHANGED <<selectedCompanyId, selectedCustomerId>>

\* transactions.filter(t => t.id !== id)
WithoutId(items, id) == SelectSeq(items, LAMBDA t : t.id # id)

\* The confirmed path; a declined confirm() changes nothing.
deleteTransaction(id) ==
    /\ mounted
    /\ Commit(companies, customers, Arr(WithoutId(transactions.items, id)))
    /\ last' = [op |-> "deleteTransaction", id |-> id]
    /\ UNCHANGED <<selectedCompanyId, selectedCustomerId, nextId>>

handleExportBackup ==
    /\ mounted
    /\ last' = [op |-> "export",
                file |-> StringifyBackup(companies, customers, transactions)]
    /\ UNCHANGED <<colls, selectedCompanyId, selectedCustomerId, localStorage,
                   mounted, nextId>>


\* ShapeCheck without the test of data.transactions
ShapeCheckTwoFields(file) ==
    IF ~file.wellFormed \/ file.kind = "null" THEN "throws"
    ELSE IF Truthy(Field(file, "companies")) /\ Truthy(Field(file, "customers"))
         THEN "valid"
         ELSE "invalid"

\* What reader.onload does with the text of the chosen file (lines 279-293):
\* "throws" when JSON.parse throws or when data is null (data.companies then
\* throws a TypeError), "invalid" when one of the three properties is falsy,
\* "valid" otherwise.
ShapeCheck(file) ==
    IF ~file.wellFormed \/ file.kind = "null" THEN "throws"
    ELSE IF /\ Truthy(Field(file, "companies"))
            /\ Truthy(Field(file, "customers"))
            /\ Truthy(Field(file, "transactions"))
         THEN "valid"
         ELSE "invalid"

ImportAlert(file) ==
    CASE ShapeCheck(file) = "throws" -> "Error reading backup file."
      [] ShapeCheck(file) = "invalid" -> "Invalid backup file format."
      [] OTHER -> "Backup restored successfully!"

\* reader.onload, with the confirm() of line 282 answered yes (a declined
\* confirm() changes nothing).
handleImportBackup(file) ==
    /\ mounted
    /\ IF ShapeCheck(file) = "valid"
       THEN Commit(Field(file, "companies"), Field(file, "customers"),
                   Field(file, "transactions"))
       ELSE UNCHANGED <<colls, localStorage, mounted>>
    /\ last' = [op |-> "import", alert |-> ImportAlert(file), file |-> file]
    /\ UNCHANGED <<selectedCompanyId, selectedCustomerId, nextId>>

\* The files the file chooser offers: the hand-written ones and the backup
\* the preceding step downloaded.  (An older download is a hand-written
\* file to the import.)
Files ==
    HandWrittenFiles \cup (IF last.op = "export" THEN {last.file} ELSE {})

\* A wipe that reloads the page without localStorage.clear()
WipeKeepsStorage ==
    /\ mounted
    /\ Mount(localStorage)
    /\ last' = [op |-> "wipe"]
    /\ UNCHANGED nextId

\* "Wipe Local Storage" (line 660), confirmed: localStorage.clear() and a
\* page reload
Wipe ==
    /\ mounted
    /\ Mount(EmptyStorage)
    /\ last' = [op |-> "wipe"]
    /\ UNCHANGED nextId

\* The user reloads the page: the App component is constructed again.
Reload ==
    /\ Mount(localStorage)
    /\ last' = [op |-> "load"]
    /\ UNCHANGED nextId

TxIds == {transactions.items[i].id : i \in 1..Len(transactions.items)}
MissingId == -9

Next ==
    \/ SelectCompany
    \/ SelectCustomer
    \/ \E name \in Names : handleAddCompany(name)
    \/ \E name \in Names, text \in BalanceTexts : handleAddCustomer(name, text)
    \/ \E txForm \in TxForms :
          handleAddTransaction(txForm.date, txForm.type, txForm.amount)
    \/ \E id \in TxIds \cup {MissingId} : deleteTransaction(id)
    \/ handleExportBackup
    \/ \E file \in Files : handleImportBackup(file)
    \/ Wipe
    \/ Reload

Spec == Init /\ [][Next]_vars


----------------------------------------------------------------------------
(* Balance computations of the render *)

RECURSIVE SumAmount(_)
\* items.reduce((s, t) => s + t.amount, 0)
SumAmount(items) ==
    IF items = <<>> THEN 0 ELSE SumAmount(Tail(items)) + Head(items).amount

OfType(items, type) == SelectSeq(items, LAMBDA t : t.type = type)

\* stats that counts only the transactions of customers that exist
statsOfExistingCustomers ==
    LET known == SelectSeq(transactions.items,
                           LAMBDA t : \E i \in 1..Len(customers.items) :
                                         customers.items[i].id = t.customerId)
        totalDebit == SumAmount(OfType(known, "DEBIT"))
        totalCredit == SumAmount(OfType(known, "CREDIT"))
    IN [totalBalance |-> totalCredit - totalDebit,
        totalDebit |-> totalDebit,
        totalCredit |-> totalCredit,
        activeCompanies |-> Len(companies.items),
        activeCustomers |-> Len(customers.items)]

\* stats (lines 175-185)
stats ==
    LET totalDebit == SumAmount(OfType(transactions.items, "DEBIT"))
        totalCredit == SumAmount(OfType(transactions.items, "CREDIT"))
    IN [totalBalance |-> totalCredit - totalDebit,
        totalDebit |-> totalDebit,
        totalCredit |-> totalCredit,
        activeCompanies |-> Len(companies.items),
        activeCustomers |-> Len(customers.items)]

WindowDays == 7

\* The clock of the browser when the chart is computed: the local calendar
\* day and hour, and the offset of local time from UTC in hours -- the
\* standard offset, one hour more on the local days from `summerFrom` on
\* where the zone has daylight-saving time.
Clock(day, hour, standard, dst, summerFrom) ==
    [day |-> day, hour |-> hour, standard |-> standard, dst |-> dst,
     summerFrom |-> summerFrom]

\* A browser on UTC at noon of day 7; one hour east of UTC at 01:00 of day
\* 8, without daylight-saving time and with summer time from day 6 on.
Clocks ==
    { Clock(7, 12, 0, FALSE, 0), Clock(8, 1, 1, FALSE, 0), Clock(8, 1, 1, TRUE, 6) }

OffsetOn(clock, localDay) ==
    IF clock.dst /\ localDay >= clock.summerFrom
    THEN clock.standard + 1
    ELSE clock.standard

\* d.toISOString().split('T')[0] of the Date whose local calendar day is
\* localDay and whose local time of day is the clock's: the UTC calendar day
toISODate(clock, localDay) ==
    localDay + ((clock.hour - OffsetOn(clock, localDay)) \div 24)

\* days (lines 188-192): for i = 0..6, d.setDate(d.getDate() - i) moves the
\* local calendar day and keeps the local time of day; reversed.
days(clock) ==
    [j \in 1..WindowDays |-> toISODate(clock, clock.day - (WindowDays - j))]

\* chartData (lines 187-202); `day` stands for the bucket's name
chartData(clock) ==
    [j \in 1..WindowDays |->
        LET day == days(clock)[j]
            dayTx == SelectSeq(transactions.items, LAMBDA t : t.date = day)
        IN [day |-> day,
            debit |-> SumAmount(OfType(dayTx, "DEBIT")),
            credit |-> SumAmount(OfType(dayTx, "CREDIT"))]]

\* transactions.filter(t => t.customerId === id)
customerTx(id) == SelectSeq(transactions.items, LAMBDA t : t.customerId = id)

\* bal of a customer card (lines 511-512)
bal(customer) ==
    customer.openingBalance
        + SumAmount(OfType(customerTx(customer.id), "CREDIT"))
        - SumAmount(OfType(customerTx(customer.id), "DEBIT"))

\* customers.find(c => c.id === id): <<>> (undefined) or <<the first match>>
currentCustomer(id) ==
    LET hits == SelectSeq(customers.items, LAMBDA c : c.id = id)
    IN IF hits = <<>> THEN <<>> ELSE <<Head(hits)>>

\* currentCustomer?.openingBalance || 0
openingOf(id) ==
    IF currentCustomer(id) = <<>> THEN 0 ELSE currentCustomer(id)[1].openingBalance

\* new Date(a.date).getTime() - new Date(b.date).getTime() is NaN when one
\* of the dates is the empty string; sort treats NaN as 0.
CompareIsNaN(a, b) == a.date = NoDate \/ b.date = NoDate
Compare(a, b) == IF CompareIsNaN(a, b) THEN 0 ELSE a.date - b.date

\* The comparator is consistent on `items` when "compares equal" is
\* transitive there (its order on dated entries always is).
Consistent(items) ==
    \A i, j, k \in 1..Len(items) :
        Compare(items[i], items[j]) = 0 /\ Compare(items[j], items[k]) = 0
            => Compare(items[i], items[k]) = 0

RECURSIVE InsertSorted(_, _)
\* x placed behind every entry of the sorted `done` that is not after it
InsertSorted(done, x) ==
    IF done = <<>> THEN <<x>>
    ELSE IF Compare(done[Len(done)], x) <= 0 THEN Append(done, x)
    ELSE Append(InsertSorted(SubSeq(done, 1, Len(done) - 1), x), done[Len(done)])

RECURSIVE StableSort(_)
StableSort(items) ==
    IF items = <<>> THEN <<>>
    ELSE InsertSorted(StableSort(SubSeq(items, 1, Len(items) - 1)), items[Len(items)])

Orderings(items) ==
    LET n == Len(items)
        perms == {p \in [1..n -> 1..n] : \A i, j \in 1..n : i # j => p[i] # p[j]}
    IN {[i \in 1..n |-> items[p[i]]] : p \in perms}

\* Array.prototype.sort with the date comparator: the stable ascending
\* order when the comparator is consistent, an implementation-defined
\* order of the same entries when it is not.
SortOutcomes(items) ==
    IF Consistent(items) THEN {StableSort(items)} ELSE Orderings(items)

RECURSIVE Accumulate(_, _)
\* tx.type === 'CREDIT' ? (runningBal += tx.amount) : (runningBal -= tx.amount)
\* over the rows in order: the running balance shown in each row
Accumulate(runningBal, rows) ==
    IF rows = <<>> THEN <<>>
    ELSE LET after == IF Head(rows).type = "CREDIT"
                      THEN runningBal + Head(rows).amount
                      ELSE runningBal - Head(rows).amount
         IN <<after>> \o Accumulate(after, Tail(rows))

\* The ledger table of customer `id` (lines 593-596): the rows and their
\* running balances, for each order the sort may produce.
runningLedger(id) ==
    {[rows |-> rows, balanceAfter |-> Accumulate(openingOf(id), rows)] :
        rows \in SortOutcomes(customerTx(id))}


----------------------------------------------------------------------------
(* Properties *)

ParseErrorAlert == "Error reading backup file."
ValidationErrorAlert == "Invalid backup file format."
RestoredAlert == "Backup restored successfully!"

ImportStep == last'.op = "import"

\* The file is no JSON text.
Unparseable(file) == ~file.wellFormed
\* The file is a JSON object that has no value for one of the three
\* required properties.
LacksField(file) ==
    /\ file.wellFormed
    /\ file.kind = "object"
    /\ \E k \in Keys : k \notin DOMAIN file.fields \/ file.fields[k].kind = "null"
\* The file is JSON but no object at all (null, a number).
NoObject(file) == file.wellFormed /\ file.kind # "object"

\* C1: an import of a file that is no JSON, that is no JSON object, or that
\* lacks one of companies / customers / transactions changes neither the
\* three collections nor their persisted copies, and reports the failure:
\* the parse error for a text that is no JSON, the validation error for an
\* object with a property missing, one of the two for a document that is
\* no object.
C1_FailedImportUntouched ==
    [][ImportStep /\ (Unparseable(last'.file) \/ LacksField(last'.file)
                        \/ NoObject(last'.file))
        => /\ UNCHANGED <<companies, customers, transactions, localStorage>>
           /\ Unparseable(last'.file) => last'.alert = ParseErrorAlert
           /\ LacksField(last'.file) => last'.alert = ValidationErrorAlert
           /\ NoObject(last'.file)
                => last'.alert \in {ParseErrorAlert, ValidationErrorAlert}]_vars

\* Scenario D on a store that holds a transaction: the import of a file
\* without `transactions` was refused.
C1_Witness ==
    /\ last.op = "import"
    /\ last.alert = ValidationErrorAlert
    /\ last.file = Without(CleanFile, "transactions")
    /\ Len(transactions.items) >= 2
    /\ Len(customers.items) >= 1


Accepted == ImportStep /\ last'.alert = RestoredAlert

\* The value the store holds under `key`, read back as loadData reads it.
Persisted(store, key) == loadData(store, key)

\* C2: after an accepted import of snapshot S the three collections are
\* S.companies, S.customers and S.transactions and the persisted store holds
\* the same three values (the replacement is one step: no state lies
\* between the old collections and the new ones).
C2_ImportReplacesAndPersists ==
    [][Accepted
        => /\ companies' = Field(last'.file, "companies")
           /\ customers' = Field(last'.file, "customers")
           /\ transactions' = Field(last'.file, "transactions")
           /\ \A k \in Keys : localStorage'[k] # <<>>
           /\ Persisted(localStorage', "companies") = companies'
           /\ Persisted(localStorage', "customers") = customers'
           /\ Persisted(localStorage', "transactions") = transactions']_vars

\* Some required property of the file is present and truthy but no array.
HasNonSequence(file) ==
    /\ file.wellFormed
    /\ file.kind = "object"
    /\ \E k \in Keys \cap DOMAIN file.fields :
          file.fields[k].kind \notin {"array", "null"}

\* C3: a snapshot with a property that is present but no sequence is
\* refused with the validation error and never committed: each of the
\* three collections is a sequence in every reachable state.
C3_NonSequenceRejected ==
    /\ IsArray(companies) /\ IsArray(customers) /\ IsArray(transactions)
    /\ (last.op = "import" /\ HasNonSequence(last.file)
          => last.alert = ValidationErrorAlert)


CustomerIds == {customers.items[i].id : i \in 1..Len(customers.items)}

\* C4: the exported snapshot holds the three collections in their current
\* order, and an import of it right after the export leaves stats and the
\* ledger of every customer as they were before the export.
C4_ExportImportRoundTrip ==
    [][/\ last'.op = "export"
          => /\ Field(last'.file, "companies") = companies
             /\ Field(last'.file, "customers") = customers
             /\ Field(last'.file, "transactions") = transactions
       /\ (last.op = "export" /\ Accepted /\ last'.file = last.file)
          => /\ stats' = stats
             /\ CustomerIds' = CustomerIds
             /\ \A id \in CustomerIds : runningLedger(id)' = runningLedger(id)]_vars

\* A snapshot with a customer of negative opening balance and a ledger of
\* two rows was exported and imported again.
C4_Witness ==
    /\ last.op = "import"
    /\ last.alert = RestoredAlert
    /\ "version" \in DOMAIN last.file.fields
    /\ \E i \in 1..Len(customers.items) :
          /\ customers.items[i].openingBalance < 0
          /\ Len(customerTx(customers.items[i].id)) >= 2


\* C5: for every customer C, the balance of C's card (openingBalance plus
\* credits minus debits of C's transactions) is the last running balance of
\* C's ledger, whatever the insertion order of the transactions (the
\* opening balance when the ledger has no row).
C5_BalanceIsLastRunningBalance ==
    mounted =>
        \A i \in 1..Len(customers.items) :
            LET C == customers.items[i]
            IN \A ledger \in runningLedger(C.id) :
                  IF ledger.rows = <<>>
                  THEN bal(C) = openingOf(C.id)
                  ELSE bal(C) = ledger.balanceAfter[Len(ledger.rows)]

Dated(t) == t.date # NoDate

RECURSIVE NetOf(_)
\* credits minus debits of the rows
NetOf(rows) ==
    IF rows = <<>> THEN 0
    ELSE NetOf(Tail(rows)) + (IF Head(rows).type = "CREDIT" THEN Head(rows).amount
                              ELSE 0 - Head(rows).amount)

\* C6: the ledger of a customer lists exactly that customer's transactions,
\* in ascending date order, entries of one date in their insertion order,
\* and its k-th running balance is the opening balance plus the credits
\* minus the debits of the first k rows.
C6_LedgerSortedAndAccumulated ==
    mounted =>
        \A id \in CustomerIds : \A ledger \in runningLedger(id) :
            LET own == customerTx(id)
                n == Len(own)
            IN /\ Len(ledger.rows) = n
               /\ \E p \in [1..n -> 1..n] :
                     /\ \A i, j \in 1..n : i # j => p[i] # p[j]
                     /\ \A i \in 1..n : ledger.rows[i] = own[p[i]]
                     /\ \A i, j \in 1..n :
                           (i < j /\ Dated(own[p[i]]) /\ Dated(own[p[j]]))
                              => \/ own[p[i]].date < own[p[j]].date
                                 \/ (own[p[i]].date = own[p[j]].date /\ p[i] < p[j])
               /\ \A k \in 1..n :
                     ledger.balanceAfter[k]
                        = openingOf(id) + NetOf(SubSeq(ledger.rows, 1, k))

RemoveAt(items, i) == SubSeq(items, 1, i - 1) \o SubSeq(items, i + 1, Len(items))

\* C7: deleteTransaction(id) with id present removes exactly
\* one entry, the one with that id, and keeps the others in their order;
\* with id absent it changes nothing; afterwards no ledger lists the
\* deleted entry.
C7_DeleteRemovesExactlyOne ==
    [][last'.op = "deleteTransaction"
        => IF last'.id \in TxIds
           THEN /\ \E i \in 1..Len(transactions.items) :
                      /\ transactions.items[i].id = last'.id
                      /\ transactions'.items = RemoveAt(transactions.items, i)
                /\ UNCHANGED <<companies, customers>>
                /\ \A id \in CustomerIds' : \A ledger \in runningLedger(id)' :
                      \A k \in 1..Len(ledger.rows) : ledger.rows[k].id # last'.id
           ELSE UNCHANGED <<companies, customers, transactions>>]_vars

\* C8: addTransaction changes nothing and fails when the customer id
\* resolves to no customer or the amount text is no strictly positive
\* number; otherwise it appends exactly one transaction with that customer
\* id and amount.
C8_AddTransactionValidates ==
    [][last'.op = "addTransaction"
        => IF selectedCustomerId \in CustomerIds /\ Number(last'.text) > 0
           THEN /\ last'.done
                /\ Len(transactions'.items) = Len(transactions.items) + 1
                /\ SubSeq(transactions'.items, 1, Len(transactions.items))
                      = transactions.items
                /\ transactions'.items[Len(transactions'.items)].customerId
                      = selectedCustomerId
                /\ transactions'.items[Len(transactions'.items)].amount
                      = Number(last'.text)
                /\ UNCHANGED <<companies, customers>>
           ELSE /\ ~last'.done
                /\ UNCHANGED <<companies, customers, transactions>>]_vars

CompanyIds == {companies.items[i].id : i \in 1..Len(companies.items)}

\* C9: addCustomer changes nothing and fails when the name is empty or the
\* company id resolves to no company; otherwise it appends exactly one
\* customer of that company whose opening balance is the parsed text, or 0
\* when the text does not parse.
C9_AddCustomerValidates ==
    [][last'.op = "addCustomer"
        => IF last'.name # "" /\ selectedCompanyId \in CompanyIds
           THEN /\ last'.done
                /\ Len(customers'.items) = Len(customers.items) + 1
                /\ SubSeq(customers'.items, 1, Len(customers.items)) = customers.items
                /\ customers'.items[Len(customers'.items)].companyId
                      = selectedCompanyId
                /\ customers'.items[Len(customers'.items)].openingBalance
                      = Number(last'.text)
                /\ UNCHANGED <<companies, transactions>>
           ELSE /\ ~last'.done
                /\ UNCHANGED <<companies, customers, transactions>>]_vars

\* C10: addCompany with an empty name fails and changes no state; with any
\* other name it appends exactly one company at the end of the collection,
\* under an identifier no company of the collection had, and the persisted
\* companies value is the new collection.
C10_AddCompany ==
    [][last'.op = "addCompany"
        => IF last'.name = ""
           THEN /\ ~last'.done
                /\ UNCHANGED <<companies, customers, transactions, localStorage,
                               selectedCompanyId, selectedCustomerId>>
           ELSE /\ last'.done
                /\ Len(companies'.items) = Len(companies.items) + 1
                /\ SubSeq(companies'.items, 1, Len(companies.items)) = companies.items
                /\ companies'.items[Len(companies'.items)].name = last'.name
                /\ companies'.items[Len(companies'.items)].id \notin CompanyIds
                /\ UNCHANGED <<customers, transactions>>
                /\ localStorage'["companies"] # <<>>
                /\ Persisted(localStorage', "companies") = companies']_vars

\* A company was added to a collection that already held one, from a
\* hand-written backup or from an earlier add.
C10_Witness ==
    /\ last.op = "addCompany"
    /\ last.done
    /\ Len(companies.items) = 2
    /\ companies.items[1].id # companies.items[2].id


\* C11: in every reachable state that renders, every transaction's customerId is the id
\* of a customer of the customers collection.
C11_NoOrphanTransaction ==
    mounted => \A i \in 1..Len(transactions.items) :
        transactions.items[i].customerId \in CustomerIds

\* C12: in every reachable state that renders, every customer's companyId is the id of a
\* company of the companies collection.
C12_CustomerCompanyExists ==
    mounted => \A i \in 1..Len(customers.items) :
        customers.items[i].companyId \in CompanyIds

\* No two entries of `items` carry the same id.
UniqueIds(items) ==
    \A i, j \in 1..Len(items) : items[i].id = items[j].id => i = j

\* C13: in every reachable state no two companies, no two customers and no
\* two transactions share an id.
C13_IdsUnique ==
    /\ UniqueIds(companies.items)
    /\ UniqueIds(customers.items)
    /\ UniqueIds(transactions.items)


\* The collection held under `key`
Collection(key) ==
    CASE key = "companies" -> companies
      [] key = "customers" -> customers
      [] OTHER -> transactions

ZeroStats ==
    [totalBalance |-> 0, totalDebit |-> 0, totalCredit |-> 0,
     activeCompanies |-> 0, activeCustomers |-> 0]

\* C14: after a confirmed wipe the three collections are empty, a load
\* from the persisted store yields three empty collections, and stats
\* reports 0 for the balance, the two totals and the two counts.
C14_WipeClearsAll ==
    [][last'.op = "wipe"
        => /\ mounted'
           /\ \A k \in Keys :
                 /\ Collection(k)' = Arr(<<>>)
                 /\ Collection(k)' = loadData(EmptyStorage, k)
                 /\ ~ParseThrows(localStorage', k)
                 /\ loadData(localStorage', k) = Arr(<<>>)
           /\ stats' = ZeroStats]_vars

\* A wipe of a store for which generateId had made two identifiers.
C14_Witness ==
    /\ last.op = "wipe"
    /\ nextId > 2
    /\ stats = ZeroStats


----------------------------------------------------------------------------
(* Page load from an arbitrary store *)

\* A stored text that is no JSON (a truncated write, a value another
\* program left under the key).
MalformedText == [wellFormed |-> FALSE, kind |-> "null", items |-> <<>>]

CleanCollection(key) ==
    CASE key = "companies" -> CleanCompanies
      [] key = "customers" -> CleanCustomers
      [] OTHER -> CleanTransactions

\* What localStorage may hold under `key` when the page is opened: nothing,
\* a text that is no JSON, the JSON of an empty array, of an array with an
\* entry, or of a value that is no array.
StoredTexts(key) ==
    { <<>>, <<MalformedText>>, <<JSONstringify(Arr(<<>>))>>,
      <<JSONstringify(CleanCollection(key))>>,
      <<JSONstringify(NonArr("object"))>> }

Stores ==
    {store \in [Keys -> UNION {StoredTexts(k) : k \in Keys}] :
        \A k \in Keys : store[k] \in StoredTexts(k)}

\* The page is not open yet: no component, no state.
InitLoad ==
    /\ localStorage \in Stores
    /\ companies = NonArr("null")
    /\ customers = NonArr("null")
    /\ transactions = NonArr("null")
    /\ selectedCompanyId = Null
    /\ selectedCustomerId = Null
    /\ mounted = FALSE
    /\ nextId = 1
    /\ last = [op |-> "closed"]

\* The page is opened (or reloaded) on that store.
SpecLoad == InitLoad /\ [][Reload]_vars

\* The value under the key is absent
Missing(store, key) == store[key] = <<>>
\* The value under the key is no JSON text, or JSON that is no array
Malformed(store, key) ==
    /\ store[key] # <<>>
    /\ (~store[key][1].wellFormed \/ store[key][1].kind # "array")

\* C15: a page load never fails, and for each key on its own it yields the
\* empty collection when the stored value is missing or malformed and the
\* stored collection otherwise.
C15_LoadFailsSoft ==
    [][last'.op = "load"
        => /\ mounted'
           /\ \A k \in Keys :
                 Collection(k)' =
                    IF Missing(localStorage, k) \/ Malformed(localStorage, k)
                    THEN Arr(<<>>)
                    ELSE JSONparse(localStorage[k][1])]_vars


----------------------------------------------------------------------------
(* Aggregates *)

RECURSIVE TotalOf(_, _, _)
\* The sum of the amounts of the entries of `items` of the given type whose
\* date is in `dates`
TotalOf(items, type, dates) ==
    IF items = <<>> THEN 0
    ELSE TotalOf(Tail(items), type, dates)
            + (IF Head(items).type = type /\ Head(items).date \in dates
               THEN Head(items).amount ELSE 0)

AllDates == {transactions.items[i].date : i \in 1..Len(transactions.items)}

\* C16: stats reports the sum of the amounts of all DEBIT and of all CREDIT
\* transactions, whatever their customer, their difference credit minus
\* debit as the balance, and the sizes of the companies and customers
\* collections as the counts.
C16_AggregateStats ==
    mounted =>
        /\ stats.totalDebit = TotalOf(transactions.items, "DEBIT", AllDates)
        /\ stats.totalCredit = TotalOf(transactions.items, "CREDIT", AllDates)
        /\ stats.totalBalance = stats.totalCredit - stats.totalDebit
        /\ stats.activeCompanies = Len(companies.items)
        /\ stats.activeCustomers = Len(customers.items)

\* A store with a credit and a debit, one of them of a customer that does
\* not exist.
C16_Witness ==
    /\ mounted
    /\ stats.totalDebit > 0
    /\ stats.totalCredit > 0
    /\ \E i \in 1..Len(transactions.items) :
          transactions.items[i].customerId \notin CustomerIds

\* C17: the trend has WindowDays buckets, oldest first, one per consecutive
\* calendar day ending at the reference date (the date of today as the
\* code formats it); the debit and credit of a bucket are the sums of the
\* DEBIT and CREDIT transactions of that date, 0 when there is none.
C17_TrendBuckets ==
    mounted =>
        \A clock \in Clocks :
            LET buckets == chartData(clock)
                referenceDate == toISODate(clock, clock.day)
            IN /\ DOMAIN buckets = 1..WindowDays
               /\ \A j \in 1..WindowDays :
                     /\ buckets[j].day = referenceDate - (WindowDays - j)
                     /\ buckets[j].debit
                           = TotalOf(transactions.items, "DEBIT", {buckets[j].day})
                     /\ buckets[j].credit
                           = TotalOf(transactions.items, "CREDIT", {buckets[j].day})


----------------------------------------------------------------------------
(* Persistence, lifecycle and selection *)

Mutations ==
    {"addCompany", "addCustomer", "addTransaction", "deleteTransaction", "import"}

\* C18: after every addCompany, addCustomer, addTransaction,
\* deleteTransaction and import step, the values stored under the keys
\* companies, customers and transactions are the three collections in
\* memory.
C18_WriteThrough ==
    [][last'.op \in Mutations
        => \A k \in Keys :
              /\ ~Missing(localStorage', k)
              /\ ~ParseThrows(localStorage', k)
              /\ Persisted(localStorage', k) = Collection(k)']_vars

\* `before` is the beginning of `after`
IsPrefix(before, after) ==
    /\ Len(before) <= Len(after)
    /\ SubSeq(after, 1, Len(before)) = before

NonReplacing ==
    {"addCompany", "addCustomer", "addTransaction", "deleteTransaction",
     "export", "selectCompany", "selectCustomer"}

C20_SelectionNeverDangles ==
    mounted =>
        /\ selectedCompanyId = Null \/ selectedCompanyId \in CompanyIds
        /\ selectedCustomerId = Null \/ selectedCustomerId \in CustomerIds


RECURSIVE NetOverCustomers(_)
\* The sum over the customers of `list` of the card balance less the
\* opening balance
NetOverCustomers(list) ==
    IF list = <<>> THEN 0
    ELSE (bal(Head(list)) - Head(list).openingBalance) + NetOverCustomers(Tail(list))

\* C21: in every reachable state that renders, stats.totalBalance is the
\* sum over all customers of the card balance less the opening balance
\* (every transaction counts in the balance of exactly one customer).
C21_AggregateIsSumOfCustomers ==
    mounted => stats.totalBalance = NetOverCustomers(customers.items)

=============================================================================
